---- MODULE Spec2Model ----
(***************************************************************************)
(* Model of validate/views.py: ValidateCard (Luhn check, major industry    *)
(* and issuer lookup) and CreateCard / DinersClub / Amex (generation of a  *)
(* card number from a major identifier).                                   *)
(*                                                                         *)
(* A card number is a Python str; it is modelled as a sequence of          *)
(* one-character strings.  "x" stands for any character that int()         *)
(* rejects.  Python's None is the string "None".                           *)
(***************************************************************************)
EXTENDS Integers, Sequences, FiniteSets, TLC

VARIABLES
    request,           \* which view received the request: "validate" | "generate"
    major_identifier,  \* CreateCard.major_identifier
    card_number,       \* self.card_number
    checksum,          \* self.checksum (None until __bool__ has run)
    valid,             \* self.valid (FALSE stands for "not yet set" before __bool__)
    issuer,            \* local `issuer` of CreateCard.get
    digit_count,       \* digit_count of the class of credit_card
    popped,            \* digits popped from new_digits in the current _generate call
    j,                 \* loop variable of `for j in range(10)`
    for_exhausted,     \* TRUE once a `for j` loop ran through all of range(10) without break
    repr_call,         \* which repr(credit_card) of CreateCard.get is running (1: line 200, 2: line 204)
    pc,                \* control position
    error,             \* the exception that ended the request, or None
    response           \* <<>> or <<the response dict>>

vars == <<request, major_identifier, card_number, checksum, valid, issuer,
          digit_count, popped, j, for_exhausted, repr_call, pc, error, response>>

None == "None"

-----------------------------------------------------------------------------
(* Bounds of the model *)

\* longest card number enumerated exhaustively for the validate view
MaxLen == 4
\* longest major identifier enumerated for the generate view
MaxPrefixLen == 2
\* the random digits drawn are the multiples of RandomStride in 0..9
RandomStride == 5

-----------------------------------------------------------------------------
(* Characters and conversions *)

Digits == <<"0", "1", "2", "3", "4", "5", "6", "7", "8", "9">>

DigitChars == {Digits[i] : i \in 1..10}

Chars == DigitChars \cup {"x"}

\* c.isdigit() / int(c) succeeds
IsDigit(c) == c \in DigitChars

\* int(c) for each decimal digit character
IntOf == [c \in DigitChars |-> CHOOSE d \in 0..9 : Digits[d + 1] = c]

ToInt(c) == IntOf[c]

\* str(n) for n >= 0
RECURSIVE Str(_)
Str(n) == IF n < 10 THEN <<Digits[n + 1]>>
          ELSE Str(n \div 10) \o <<Digits[(n % 10) + 1]>>

\* range(a, b)
Range(a, b) == a .. (b - 1)

\* s[:k] for 0 <= k
Take(s, k) == SubSeq(s, 1, IF k < Len(s) THEN k ELSE Len(s))

\* s[:-1]
AllButLast(s) == IF Len(s) = 0 THEN <<>> ELSE SubSeq(s, 1, Len(s) - 1)

\* s[7:-1]
PersonalDigits(s) == IF Len(s) - 1 > 7 THEN SubSeq(s, 8, Len(s) - 1) ELSE <<>>

-----------------------------------------------------------------------------
(* ValidateCard: the tables *)

\* the keys of major_map without "9"
major_map_keys_no9 == {"1", "2", "3", "4", "5", "6", "7", "8"}

\* ValidateCard.major_map: the keys, and the label of each key
major_map_keys == {"1", "2", "3", "4", "5", "6", "7", "8", "9"}

major_map == [c \in major_map_keys |->
    CASE c \in {"1", "2"} -> "Airline industry"
      [] c = "3" -> "Travel/Entertainment"
      [] c \in {"4", "5"} -> "Banking/Financial"
      [] c = "6" -> "Merchandising & Banking/Financial"
      [] c = "7" -> "Petroleum industries"
      [] c = "8" -> "Health, telecomm and future"
      [] c = "9" -> "For assignment by standards bodies"]

\* iteration order of the issuer_map dict (insertion order)
IssuerOrder == <<"Diners Club", "American Express", "JCB", "AAA",
                 "Discover", "Mastercard", "Visa">>

\* [str(n) for n in range(a, b)]
StrRange(a, b) == {Str(n) : n \in Range(a, b)}

\* ValidateCard.issuer_map
issuer_map == [iss \in {IssuerOrder[i] : i \in 1..Len(IssuerOrder)} |->
    CASE iss = "Diners Club" -> {<<"3", "0">>}
      [] iss = "American Express" -> {<<"3", "4">>, <<"3", "7">>}
      [] iss = "JCB" -> {<<"3", "5">>}
      [] iss = "AAA" -> {<<"6", "2", "0">>}
      [] iss = "Discover" ->
            {<<"6", "0", "1", "1">>, <<"6", "4">>, <<"6", "5">>}
            \cup StrRange(622126, 622925)
            \cup StrRange(624000, 626999)
            \cup StrRange(628200, 628899)
      [] iss = "Mastercard" ->
            StrRange(2221, 2720)
            \cup {<<"5", "1">>, <<"5", "2">>, <<"5", "3">>, <<"5", "5">>}
      [] iss = "Visa" -> {<<"4">>}]

-----------------------------------------------------------------------------
(* ValidateCard: the methods *)

\* int(d) for the element at index i (0-based) of card_number[:-1][::-1],
\* which is the character of card_number at position Len - 1 - i (1-based)
RevDigit(cn, i) == ToInt(cn[Len(cn) - 1 - i])

\* len(card_number[:-1])
BodyLen(cn) == IF Len(cn) = 0 THEN 0 ELSE Len(cn) - 1

\* the value stored in memo for a digit at an even index
Doubled == [digit \in 0..9 |->
    IF digit * 2 > 9 THEN (digit * 2) - 9 ELSE digit * 2]

\* memo[i] after the loop of _checksum
Memo(cn, i) == IF i % 2 = 0 THEN Doubled[RevDigit(cn, i)] ELSE RevDigit(cn, i)

\* memo[i] with the doubling applied at the odd indexes instead
MemoOdd(cn, i) == IF i % 2 = 1 THEN Doubled[RevDigit(cn, i)] ELSE RevDigit(cn, i)

\* _checksum with the doubling applied at the odd indexes
_checksum_odd(cn) ==
    LET sum[n \in 0..BodyLen(cn)] ==
            IF n = 0 THEN 0 ELSE MemoOdd(cn, n - 1) + sum[n - 1]
        strsum == Str(sum[BodyLen(cn)] * 9)
    IN  strsum[Len(strsum)]

\* ValidateCard._checksum, for a card number whose [:-1] are all digits;
\* sum[n] is the sum of the first n values of memo
_checksum(cn) ==
    LET sum[n \in 0..BodyLen(cn)] ==
            IF n = 0 THEN 0 ELSE Memo(cn, n - 1) + sum[n - 1]
        strsum == Str(sum[BodyLen(cn)] * 9)
    IN  strsum[Len(strsum)]

\* ValidateCard.__bool__: the exception raised (or None) and the values it
\* leaves in .checksum and .valid
__bool__(cn, old_checksum, old_valid) ==
    IF \E i \in 1..(Len(cn) - 1) : ~IsDigit(cn[i])
    THEN [error |-> "ValueError", checksum |-> old_checksum, valid |-> old_valid]
    ELSE LET cs == _checksum(cn)
         IN  IF Len(cn) = 0
             THEN [error |-> "IndexError", checksum |-> cs, valid |-> old_valid]
             ELSE [error |-> None, checksum |-> cs, valid |-> (cn[Len(cn)] = cs)]

\* the first issuer, in dict order from position k, whose tuple holds prefix
RECURSIVE IssuerScan(_, _)
IssuerScan(prefix, k) ==
    IF k > Len(IssuerOrder) THEN None
    ELSE IF prefix \in issuer_map[IssuerOrder[k]] THEN IssuerOrder[k]
    ELSE IssuerScan(prefix, k + 1)

\* the outer loop of _get_issuer from index i (0-based) on, over range(n)
RECURSIVE StackScan(_, _, _)
StackScan(cn, i, n) ==
    IF i >= n THEN None
    ELSE LET found == IssuerScan(Take(cn, i + 1), 1)
         IN  IF found # None THEN found ELSE StackScan(cn, i + 1, n)

\* _get_issuer with the loop over range(len(card_number) - 1)
_get_issuer_short(cn) == StackScan(cn, 0, Len(cn) - 1)

\* ValidateCard._get_issuer
_get_issuer(cn) == StackScan(cn, 0, Len(cn))

-----------------------------------------------------------------------------
(* The requests *)

\* every string of at most n characters
AllStrings(n) == UNION {[1..k -> Chars] : k \in 0..n}

\* card numbers in the block of the enumerated Discover and AAA prefixes
BlockInputs == {<<"6", "2">> \o t : t \in [1..4 -> DigitChars]}

\* card numbers of the lengths the url resolver lets through, and up to 18 digits
LongInputs == {Str(4111111), Str(340000), Str(601100), Str(6229250),
               Str(27200000), Str(41111111) \o Str(11111111),
               Str(41111111) \o Str(11111112),
               Str(378282246) \o Str(310005),
               Str(305693090) \o Str(25904),
               Str(601100099) \o Str(139424242)}

\* the card numbers ValidateCard.get is called with
ValidateInputs == AllStrings(MaxLen) \cup BlockInputs \cup LongInputs

\* the major identifiers CreateCard.get is called with
PrefixDigits == {"0", "3", "4", "6"}

Prefixes == UNION {[1..k -> PrefixDigits] : k \in 1..MaxPrefixLen}

\* the digits new_digits.pop() can return
RandomDigits == {Digits[d + 1] : d \in {e \in 0..9 : e % RandomStride = 0}}

Terminal == {"returned", "raised"}

InitValidate ==
    /\ request = "validate"
    /\ card_number \in ValidateInputs
    /\ major_identifier = <<>>
    /\ pc = "validate_init"

InitGenerate ==
    /\ request = "generate"
    /\ major_identifier \in Prefixes
    /\ card_number = <<>>
    /\ pc = "generate_get"

\* the attributes and locals no request has set yet
InitRest ==
    /\ checksum = None
    /\ valid = FALSE
    /\ issuer = None
    /\ digit_count = 16
    /\ popped = 0
    /\ j = 0
    /\ for_exhausted = FALSE
    /\ repr_call = 1
    /\ error = None
    /\ response = <<>>

Init == (InitValidate \/ InitGenerate) /\ InitRest

\* the requests to CreateCard.get alone
GenerateInit == InitGenerate /\ InitRest

-----------------------------------------------------------------------------
(* ValidateCard.get *)

\* ValidateCard(cc_num): __init__ stores the number and calls bool(self)
ValidateCardInit ==
    /\ pc = "validate_init"
    /\ \E b \in {__bool__(card_number, checksum, valid)} :
           /\ checksum' = b.checksum
           /\ valid' = b.valid
           /\ error' = b.error
           /\ pc' = IF b.error = None THEN "validate_repr" ELSE "raised"
    /\ UNCHANGED <<request, major_identifier, card_number, issuer, digit_count,
                   popped, j, for_exhausted, repr_call, response>>

\* repr(ValidateCard(cc_num)): the response dict
ValidateCardRepr ==
    /\ pc = "validate_repr"
    /\ IF card_number[1] \notin major_map_keys
       THEN /\ error' = "KeyError"
            /\ pc' = "raised"
            /\ UNCHANGED <<issuer, response>>
       ELSE /\ issuer' = _get_issuer(card_number)
            /\ response' = <<[valid |-> valid,
                              major_industry |-> major_map[card_number[1]],
                              card_issuer |-> IF issuer' # None THEN issuer'
                                              ELSE "could not be found",
                              personal_digits |-> PersonalDigits(card_number),
                              check_digit |-> checksum]>>
            /\ pc' = "returned"
            /\ UNCHANGED error
    /\ UNCHANGED <<request, major_identifier, card_number, checksum, valid,
                   digit_count, popped, j, for_exhausted, repr_call>>

-----------------------------------------------------------------------------
(* CreateCard.get *)

\* digit_count of the class CreateCard.get instantiates for an issuer
DigitCountOf(iss) ==
    CASE iss = "Diners Club" -> 14
      [] iss = "American Express" -> 15
      [] OTHER -> 16

\* the issuer of the major identifier picks the class of credit_card
CreateCardGet ==
    /\ pc = "generate_get"
    /\ card_number' = major_identifier
    /\ issuer' = _get_issuer(major_identifier)
    /\ digit_count' = DigitCountOf(issuer')
    /\ repr_call' = 1
    /\ popped' = 0
    /\ pc' = "while"
    /\ UNCHANGED <<request, major_identifier, checksum, valid, j,
                   for_exhausted, error, response>>

\* os.urandom(40).hex() has 80 characters; new_digits holds its decimal digits
MaxNewDigits == 80

\* _generate: the test of the while loop and new_digits.pop()
GenerateWhile ==
    /\ pc = "while"
    /\ IF Len(card_number) < digit_count
       THEN \/ \E d \in RandomDigits :
                 /\ popped < MaxNewDigits
                 /\ card_number' = Append(card_number, d)
                 /\ popped' = popped + 1
                 /\ j' = 0
                 /\ pc' = "for"
                 /\ UNCHANGED error
            \/ /\ error' = "IndexError"      \* pop from an empty list
               /\ pc' = "raised"
               /\ UNCHANGED <<card_number, popped, j>>
       ELSE /\ pc' = "generated"
            /\ UNCHANGED <<card_number, popped, j, error>>
    /\ UNCHANGED <<request, major_identifier, checksum, valid, issuer,
                   digit_count, for_exhausted, repr_call, response>>

\* range(9) in place of range(10)
TrialDigits9 == Range(0, 9)

\* the values of j in `for j in range(10)`
TrialDigits == Range(0, 10)

\* `if not self: break` in place of `if self: break`
BreakTakenNegated(b) == ~b.valid

\* `if self: break`, b being the outcome of bool(self)
BreakTaken(b) == b.valid

\* the trial digit removed before the break
AfterBreakDropped(tried) == AllButLast(tried)

\* self.card_number when the loop is left by break: the trial digit stays
AfterBreak(tried) == tried

\* _generate: one pass of `for j in range(10)`
GenerateFor ==
    /\ pc = "for"
    /\ \E tried \in {card_number \o Str(j)} :
       \E b \in {__bool__(tried, checksum, valid)} :
           /\ checksum' = b.checksum
           /\ valid' = b.valid
           /\ error' = b.error
           /\ IF b.error # None
              THEN /\ pc' = "raised"
                   /\ card_number' = tried
                   /\ UNCHANGED <<j, for_exhausted>>
              ELSE IF BreakTaken(b)
              THEN /\ card_number' = AfterBreak(tried)
                   /\ pc' = "while"
                   /\ UNCHANGED <<j, for_exhausted>>
              ELSE /\ card_number' = AllButLast(tried)
                   /\ IF j + 1 \in TrialDigits
                      THEN /\ j' = j + 1
                           /\ pc' = "for"
                           /\ UNCHANGED for_exhausted
                      ELSE /\ for_exhausted' = TRUE
                           /\ pc' = "while"
                           /\ UNCHANGED j
    /\ UNCHANGED <<request, major_identifier, issuer, digit_count, popped,
                   repr_call, response>>

\* CreateCard.__repr__ after _generate: bool(self), return self.card_number;
\* the second repr completes the response dict
CreateCardRepr ==
    /\ pc = "generated"
    /\ \E b \in {__bool__(card_number, checksum, valid)} :
           /\ checksum' = b.checksum
           /\ valid' = b.valid
           /\ error' = b.error
           /\ IF b.error # None
              THEN /\ pc' = "raised"
                   /\ UNCHANGED response
              ELSE IF repr_call = 1
              THEN /\ pc' = "respond"
                   /\ UNCHANGED response
              ELSE /\ pc' = "returned"
                   /\ response' = <<[valid |-> response[1].valid,
                                     major_industry |-> response[1].major_industry,
                                     card_issuer |-> response[1].card_issuer,
                                     card_number |-> card_number,
                                     personal_digits |-> PersonalDigits(card_number),
                                     check_digit |-> b.checksum]>>
    /\ UNCHANGED <<request, major_identifier, card_number, issuer, digit_count,
                   popped, j, for_exhausted, repr_call>>

\* the response dict of CreateCard.get up to its second repr(credit_card)
CreateCardRespond ==
    /\ pc = "respond"
    /\ IF card_number[1] \notin major_map_keys
       THEN /\ error' = "KeyError"
            /\ pc' = "raised"
            /\ UNCHANGED <<response, repr_call, popped>>
       ELSE /\ response' = <<[valid |-> valid,
                              major_industry |-> major_map[card_number[1]],
                              card_issuer |-> issuer]>>
            /\ repr_call' = 2
            /\ popped' = 0
            /\ pc' = "while"
            /\ UNCHANGED error
    /\ UNCHANGED <<request, major_identifier, card_number, checksum, valid,
                   issuer, digit_count, j, for_exhausted>>

-----------------------------------------------------------------------------

Next ==
    \/ ValidateCardInit
    \/ ValidateCardRepr
    \/ CreateCardGet
    \/ GenerateWhile
    \/ GenerateFor
    \/ CreateCardRepr
    \/ CreateCardRespond

Spec == Init /\ [][Next]_vars

\* the steps of a request to CreateCard.get
GenerateNext ==
    \/ CreateCardGet
    \/ GenerateWhile
    \/ GenerateFor
    \/ CreateCardRepr
    \/ CreateCardRespond

\* the generate requests alone; a request that can take a step takes it
\* (the view is a sequential program that runs to its end)
FairGenerateSpec ==
    /\ GenerateInit
    /\ [][GenerateNext]_vars
    /\ WF_vars(GenerateNext)

-----------------------------------------------------------------------------
(* Properties *)

AllDigits(s) == \A i \in 1..Len(s) : IsDigit(s[i])

Last(s) == s[Len(s)]

\* the outcome of ValidateCard.get on cn: a result is returned and it says valid
ValidatesAsValid(cn) ==
    LET b == __bool__(cn, None, FALSE)
    IN  /\ b.error = None
        /\ b.valid
        /\ cn[1] \in major_map_keys

GenerateReturned == request = "generate" /\ pc = "returned"

ValidateReturned == request = "validate" /\ pc = "returned"

\* C1: the card number generate returns passes the Luhn check: its last digit
\* is the checksum of the rest, the valid flag of the response is true, and
\* validating the returned number reports valid.
C1_GeneratedIsValid ==
    GenerateReturned =>
        /\ response[1].valid
        /\ __bool__(response[1].card_number, None, FALSE).valid
        /\ ValidatesAsValid(response[1].card_number)
        /\ response[1].check_digit = Last(response[1].card_number)

C1_Witness ==
    /\ GenerateReturned
    /\ major_identifier = <<"4">>
    /\ response[1].valid
    /\ Len(response[1].card_number) > Len(major_identifier)

\* the target length the generator is meant to reach for a major identifier
TargetLength(prefix) ==
    LET detected == _get_issuer(prefix)
    IN  IF detected = "Diners Club" THEN 14
        ELSE IF detected = "American Express" THEN 15
        ELSE 16

\* C2: the card number generate returns has exactly target_length digits:
\* 14 for Diners Club, 15 for American Express, 16 otherwise.
C2_ExactTargetLength ==
    GenerateReturned =>
        Len(response[1].card_number) = TargetLength(major_identifier)

\* the Luhn weighted sum of a payload, counting positions from its right end:
\* every second digit, starting with the rightmost, is doubled and the
\* decimal digits of each product are added
RECURSIVE LuhnSum(_, _)
LuhnSum(payload, k) ==
    IF k > Len(payload) THEN 0
    ELSE LET d == ToInt(payload[Len(payload) + 1 - k])
             prod == IF k % 2 = 1 THEN 2 * d ELSE d
         IN  (prod \div 10) + (prod % 10) + LuhnSum(payload, k + 1)

CanonicalCheckDigit(payload) == (10 - (LuhnSum(payload, 1) % 10)) % 10

\* C3: for a digit sequence of at least 2 digits, the card verifies exactly
\* when its last digit is the canonical Luhn check digit
\* (10 - (s mod 10)) mod 10 of the rest, the stored checksum is that digit,
\* and a verifying sequence with its last digit changed does not verify.
C3_VerifyIsCanonicalLuhn ==
    (/\ request = "validate"
     /\ pc # "validate_init"
     /\ AllDigits(card_number)
     /\ Len(card_number) >= 2) =>
        LET payload == AllButLast(card_number)
        IN  /\ error # "ValueError"
            /\ checksum = Digits[CanonicalCheckDigit(payload) + 1]
            /\ valid <=> (ToInt(Last(card_number)) = CanonicalCheckDigit(payload))
            /\ valid => \A c \in DigitChars \ {Last(card_number)} :
                            ~__bool__(Append(payload, c), None, FALSE).valid

C3_Witness ==
    /\ ValidateReturned
    /\ valid
    /\ Len(card_number) = 15
    /\ \E i \in 1..Len(card_number) : ToInt(card_number[i]) >= 5

\* the lengths of the prefixes of cn that are an element of some issuer's ranges
MatchLens(cn) ==
    {k \in 1..Len(cn) : \E iss \in DOMAIN issuer_map : Take(cn, k) \in issuer_map[iss]}

\* the issuer, first in table order, holding the shortest matching prefix
ExpectedIssuer(cn) ==
    IF MatchLens(cn) = {} THEN None
    ELSE LET k == CHOOSE m \in MatchLens(cn) : \A n \in MatchLens(cn) : m <= n
             first == CHOOSE i \in 1..Len(IssuerOrder) :
                        /\ Take(cn, k) \in issuer_map[IssuerOrder[i]]
                        /\ \A h \in 1..(i - 1) :
                              Take(cn, k) \notin issuer_map[IssuerOrder[h]]
         IN  IssuerOrder[first]

\* C4: classify returns the issuer whose ranges hold the shortest prefix of
\* the number that is in any issuer's ranges, the first in table order on a
\* tie, and no issuer (and no error) when no prefix matches; 4111111 is
\* Visa, 340000 American Express, 601100 Discover.
C4_ShortestPrefixFirstIssuer ==
    /\ ValidateReturned =>
          /\ issuer = ExpectedIssuer(card_number)
          /\ issuer # None => response[1].card_issuer = issuer
          /\ issuer = None => response[1].card_issuer = "could not be found"
          /\ card_number = Str(4111111) => issuer = "Visa"
          /\ card_number = Str(340000) => issuer = "American Express"
          /\ card_number = Str(601100) => issuer = "Discover"
    /\ (request = "validate" /\ pc = "raised") => issuer = None
    /\ (request = "generate" /\ pc # "generate_get") =>
          issuer = ExpectedIssuer(major_identifier)

C4_Witness ==
    /\ ValidateReturned
    /\ card_number = Str(601100)
    /\ response[1].card_issuer = "Discover"

\* C5: validate ends in an error, with no validation result, for every card
\* number that has a non-digit character at any position and for every card
\* number shorter than 2 characters.
C5_InvalidInputRaises ==
    (/\ request = "validate"
     /\ pc \in Terminal
     /\ (~AllDigits(card_number) \/ Len(card_number) < 2)) =>
        /\ pc = "raised"
        /\ error # None
        /\ response = <<>>

IndustryDigits == {"1", "2", "3", "4", "5", "6", "7", "8", "9"}

\* the number whose first character selects the industry
Subject == IF request = "validate" THEN card_number ELSE major_identifier

\* C6: a request on a non-empty digit sequence starting with 1 to 9 gets the
\* label of that digit in its result; a request on a digit sequence starting
\* with 0 ends in the lookup error KeyError and never in a result (a
\* generate request can also end earlier, on an empty new_digits).
C6_IndustryLookup ==
    (/\ pc \in Terminal
     /\ Subject # <<>>
     /\ AllDigits(Subject)) =>
        /\ Subject[1] \in IndustryDigits =>
              \/ /\ pc = "returned"
                 /\ response[1].major_industry = major_map[Subject[1]]
              \/ request = "generate" /\ error = "IndexError"
        /\ Subject[1] = "0" =>
              /\ pc = "raised"
              /\ response = <<>>
              /\ \/ error = "KeyError"
                 \/ request = "generate" /\ error = "IndexError"

C6_Witness ==
    /\ request = "generate"
    /\ pc = "raised"
    /\ major_identifier[1] = "0"
    /\ error = "KeyError"
    /\ Len(card_number) >= digit_count

\* C7: every `for j` loop of the generator finds a digit that verifies
\* within its ten tries, at most 8 random digits are appended, and every
\* request reaches its end (a result or an exception).
C7_GenerateTerminates ==
    /\ [](for_exhausted = FALSE /\ j \in 0..9 /\ popped <= 8)
    /\ <>(pc \in Terminal)

C7_Witness ==
    /\ GenerateReturned
    /\ Len(major_identifier) = 1
    /\ Len(card_number) >= 16

\* C8 as stated: the check digit that verified is removed before the next
\* random digit is appended, so the sequence is one digit longer per random
\* digit popped (plus the final check digit).
C8_CheckDigitDropped ==
    (request = "generate" /\ repr_call = 1 /\ pc = "while") =>
        \/ Len(card_number) = Len(major_identifier) + popped
        \/ Len(card_number) = Len(major_identifier) + popped + 1

\* C8 amended: the check digit that verified stays in the sequence and the
\* next random digit is appended after it; only the trial digits that fail
\* are removed.  The sequence is two digits longer per random digit popped,
\* and it verifies whenever the while test is reached after a pop.
C8_CheckDigitKept ==
    (request = "generate" /\ repr_call = 1) =>
        /\ pc = "while" =>
              /\ Len(card_number) = Len(major_identifier) + (2 * popped)
              /\ popped > 0 => (valid /\ checksum = Last(card_number))
        /\ pc = "for" =>
              Len(card_number) = Len(major_identifier) + (2 * popped) - 1

C8_Witness ==
    /\ request = "generate"
    /\ repr_call = 1
    /\ pc = "for"
    /\ popped = 3
    /\ j > 0

\* the number a digit sequence denotes
RECURSIVE Num(_)
Num(s) == IF s = <<>> THEN 0 ELSE (10 * Num(AllButLast(s))) + ToInt(Last(s))

\* C9: every six-digit prefix from 622126 to 622925 classifies as Discover
\* and every four-digit prefix from 2221 to 2720 as Mastercard, both
\* endpoints included.
C9_RangesInclusive ==
    (ValidateReturned /\ AllDigits(card_number)) =>
        /\ (Len(card_number) >= 6 /\ Num(Take(card_number, 6)) \in 622126..622925)
              => response[1].card_issuer = "Discover"
        /\ (Len(card_number) >= 4 /\ Num(Take(card_number, 4)) \in 2221..2720)
              => response[1].card_issuer = "Mastercard"

\* C10: the issuer generate reports, detected from the major identifier, is
\* the issuer classify assigns to the returned card number.
C10_ReportedIssuerIsClassified ==
    GenerateReturned =>
        response[1].card_issuer = _get_issuer(response[1].card_number)

====
